---- MODULE Spec2Model ----
(***************************************************************************)
(* Model of the headlines application, native build (the code under        *)
(* #[cfg(not(target_arch = "wasm32"))]): the UI loop (App::update and the   *)
(* Headlines render methods) and the fetcher thread spawned by              *)
(* Headlines::init, connected by app_tx/app_rx (sync_channel(1)) and        *)
(* news_tx/news_rx (unbounded channel).                                     *)
(*                                                                         *)
(* Variables whose comment says "history" record what has happened and are  *)
(* never read by an action's guard or by the program state's update.        *)
(***************************************************************************)
EXTENDS Integers, Sequences, FiniteSets, TLC

\* ----- bounds of the model -----
MaxRecords == 3   \* records alive at once (display list + data queue + batch)
MaxResp == 2      \* articles in one API response
MaxCount == 2     \* saturation of the history counter apiKeySetSent

\* ----- program constants -----
ChanCap == 1      \* sync_channel(1)

DefaultDescription == "default description"

\* ----- input domains -----
StoredKeys == {"", "k1"}          \* api_key found in storage at startup
KeyTexts == {"", "k1", "k2"}      \* content of the text field after a frame
ArticleSet == {[title |-> "t1", url |-> "u1"], [title |-> "t2", url |-> "u2"]}

SeqsUpTo(S, n) == UNION {[1..k -> S] : k \in 0..n}

Responses == SeqsUpTo(ArticleSet, MaxResp)

\* outcome of NewsAPI::new(key).fetch(): Ok(response) or Err
FetchOutcomes == {[ok |-> TRUE, articles |-> r] : r \in Responses}
                   \cup {[ok |-> FALSE, articles |-> <<>>]}

\* ----- Msg -----
ApiKeySetMsg(k) == [type |-> "ApiKeySet", key |-> k]

RefreshMsg == [type |-> "Refresh", key |-> ""]

NoMsg == [type |-> "None", key |-> ""]

VARIABLES
  articles,             \* Headlines.articles (display list)
  api_key,              \* Headlines.config.api_key
  api_key_initialized,  \* Headlines.api_key_initialized
  app_chan,             \* buffer of the app_tx/app_rx sync_channel
  news_chan,            \* buffer of the news_tx/news_rx channel
  uiPc,                 \* "frame" | "blocked" (inside tx.send) | "panicked"
  pending,              \* the Msg a blocked tx.send is holding
  fpc,                  \* fetcher thread: "start" | "recv" | "net" | "push" | "done"
  capturedKey,          \* api_key moved into the thread closure
  fetchKey,             \* argument api_key of the running fetch_news call
  batch,                \* articles of the response not yet iterated
  fetchCause,           \* history: what started the latest fetch
  fetchResult,          \* history: "none" | "ok" | "err" of the latest fetch
  resp,                 \* history: articles of the latest response
  enq,                  \* history: records the latest fetch has enqueued
  lastKeySet,           \* history: key of the last ApiKeySet handled, else startup key
  apiKeySetSent,        \* history: number of ApiKeySet sends (saturating)
  failedEmpty,          \* history: latest fetch failed with list and queue empty
  fetchStale,           \* history: a refresh was clicked during the running fetch
  newsOld,              \* history: per record of news_chan, produced by a fetch
                        \*          started before the latest refresh click
  articlesOld,          \* history: the same, per record of articles
  lastFrame             \* history: input and effect of the latest frame

vars == <<articles, api_key, api_key_initialized, app_chan, news_chan, uiPc,
          pending, fpc, capturedKey, fetchKey, batch, fetchCause, fetchResult,
          resp, enq, lastKeySet, apiKeySetSent, failedEmpty, fetchStale,
          newsOld, articlesOld, lastFrame>>

uiVars == <<articles, api_key, api_key_initialized, uiPc, pending, lastFrame,
            articlesOld, apiKeySetSent>>

fetchVars == <<fpc, fetchKey, batch, fetchCause, fetchResult, resp, enq,
               lastKeySet, failedEmpty>>

\* ----- pure helpers -----
Min(a, b) == IF a < b THEN a ELSE b

AllTrue(s) == [i \in DOMAIN s |-> TRUE]

\* NewsCardData built from one article of the response
NewsCard(a) == [title |-> a.title, url |-> a.url, description |-> DefaultDescription]

\* mutant: the loop body sends each record twice
SentForArticle_twice(a) == <<NewsCard(a), NewsCard(a)>>

\* the records one iteration of the for loop sends on news_tx
SentForArticle(a) == <<NewsCard(a)>>

\* mutant: a failed call still yields a record to enqueue
ResponseArticles_onError(outcome) ==
  IF outcome.ok THEN outcome.articles ELSE <<[title |-> "t1", url |-> "u1"]>>

\* articles of the response that the for loop iterates over
ResponseArticles(outcome) == IF outcome.ok THEN outcome.articles ELSE <<>>

\* mutant: the record is inserted at the front of the list
Push_front(list, x) == <<x>> \o list

\* Vec::push
Push(list, x) == Append(list, x)

\* mutant: the frame drains the whole queue
PreloadArticles_all(list, q) == list \o q

\* Headlines::preload_articles: the display list after the single try_recv
PreloadArticles(list, q) == IF q # <<>> THEN Push(list, Head(q)) ELSE list

\* the data queue after the single try_recv
PreloadQueue(q) == IF q # <<>> THEN Tail(q) ELSE q

\* mutant: the click does not clear the list
ClearOnRefresh_keep(list, clicked) == list

\* refresh_btn.clicked() branch of render_top_panel: self.articles.clear()
ClearOnRefresh(list, clicked) == IF clicked THEN <<>> ELSE list

\* mutant: a rendezvous channel, every send waits for the receiver
HasRoom_rendezvous(ch) == Len(ch) < ChanCap - 1

\* SyncSender::send returns at once iff the buffer has room
HasRoom(ch) == Len(ch) < ChanCap

\* the key fetch_news is called with in each arm of the match on app_rx.recv()
KeyForMsg(m, captured) == IF m.type = "ApiKeySet" THEN m.key ELSE captured

\* api_key_initialized as set by init from the stored config
InitializedAtStartup(k) == k # ""

\* mutant: the submission does not set the flag
InitializedAfterConfig_unset(flag, enter, k) == flag

\* render_config: the flag after a frame of the config prompt
InitializedAfterConfig(flag, enter, k) == IF enter THEN TRUE ELSE flag

\* the view App::update draws
View == IF ~api_key_initialized THEN "AwaitingApiKey"
        ELSE IF articles = <<>> THEN "Loading" ELSE "Displaying"

\* ----- Init: the state Headlines::init returns -----
Init ==
  /\ \E k \in StoredKeys :
       /\ api_key = k
       /\ capturedKey = k
       /\ lastKeySet = k
       /\ api_key_initialized = InitializedAtStartup(k)
  /\ articles = <<>>
  /\ articlesOld = <<>>
  /\ app_chan = <<>>
  /\ news_chan = <<>>
  /\ newsOld = <<>>
  /\ uiPc = "frame"
  /\ pending = NoMsg
  /\ fpc = "start"
  /\ fetchKey = ""
  /\ batch = <<>>
  /\ fetchCause = "none"
  /\ fetchResult = "none"
  /\ resp = <<>>
  /\ enq = <<>>
  /\ apiKeySetSent = 0
  /\ failedEmpty = FALSE
  /\ fetchStale = FALSE
  /\ lastFrame = [tick |-> 0, input |-> "none", drained |-> FALSE, lenBefore |-> 0]

\* ----- UI loop -----
\* tx.send(m).expect(..): Err (panic) when app_rx is gone, returns when the
\* buffer has room, blocks otherwise
SendMsg(m) ==
  IF fpc = "done"
    THEN uiPc' = "panicked" /\ pending' = NoMsg /\ app_chan' = app_chan
    ELSE IF HasRoom(app_chan)
      THEN uiPc' = "frame" /\ pending' = NoMsg /\ app_chan' = Append(app_chan, m)
      ELSE uiPc' = "blocked" /\ pending' = m /\ app_chan' = app_chan

\* App::update when !api_key_initialized: render_config
RenderConfig(k, enter) ==
  /\ uiPc = "frame"
  /\ ~api_key_initialized
  /\ api_key' = k
  /\ api_key_initialized' = InitializedAfterConfig(api_key_initialized, enter, k)
  /\ IF enter
       THEN /\ SendMsg(ApiKeySetMsg(k))
            /\ apiKeySetSent' = Min(apiKeySetSent + 1, MaxCount)
       ELSE UNCHANGED <<uiPc, pending, app_chan, apiKeySetSent>>
  /\ lastFrame' = [tick |-> 1 - lastFrame.tick,
                   input |-> IF enter THEN "enter" ELSE "edit",
                   drained |-> FALSE, lenBefore |-> Len(articles)]
  /\ UNCHANGED <<articles, articlesOld, news_chan, newsOld, fetchStale,
                 capturedKey>>
  /\ UNCHANGED fetchVars

\* App::update when api_key_initialized: preload_articles, render_top_panel
ContentFrame(refresh) ==
  /\ uiPc = "frame"
  /\ api_key_initialized
  /\ articles' = ClearOnRefresh(PreloadArticles(articles, news_chan), refresh)
  /\ news_chan' = PreloadQueue(news_chan)
  /\ articlesOld' = ClearOnRefresh(PreloadArticles(articlesOld, newsOld), refresh)
  /\ newsOld' = IF refresh THEN AllTrue(PreloadQueue(newsOld))
                ELSE PreloadQueue(newsOld)
  /\ fetchStale' = IF refresh THEN fpc \in {"net", "push"} ELSE fetchStale
  /\ IF refresh
       THEN SendMsg(RefreshMsg)
       ELSE UNCHANGED <<uiPc, pending, app_chan>>
  /\ lastFrame' = [tick |-> 1 - lastFrame.tick,
                   input |-> IF refresh THEN "refresh" ELSE "idle",
                   drained |-> news_chan # <<>>, lenBefore |-> Len(articles)]
  /\ UNCHANGED <<api_key, api_key_initialized, apiKeySetSent, capturedKey>>
  /\ UNCHANGED fetchVars

\* a blocked tx.send returns: room in the buffer, or app_rx dropped (panic)
SendUnblock ==
  /\ uiPc = "blocked"
  /\ \/ /\ fpc = "done"
        /\ uiPc' = "panicked"
        /\ pending' = NoMsg
        /\ app_chan' = app_chan
     \/ /\ fpc # "done"
        /\ HasRoom(app_chan)
        /\ uiPc' = "frame"
        /\ pending' = NoMsg
        /\ app_chan' = Append(app_chan, pending)
  /\ UNCHANGED <<articles, api_key, api_key_initialized, lastFrame, articlesOld,
                 apiKeySetSent, news_chan, newsOld, fetchStale, capturedKey>>
  /\ UNCHANGED fetchVars

\* ----- fetcher thread -----
\* entering fetch_news(key, news_tx)
StartFetch(key, cause) ==
  /\ fpc' = "net"
  /\ fetchKey' = key
  /\ fetchCause' = cause
  /\ fetchResult' = "none"
  /\ batch' = <<>>
  /\ resp' = <<>>
  /\ enq' = <<>>
  /\ failedEmpty' = FALSE
  /\ fetchStale' = FALSE

\* thread body: if !api_key.is_empty() { fetch_news } else { loop { .. } }
FetcherStart ==
  /\ fpc = "start"
  /\ IF capturedKey # ""
       THEN StartFetch(capturedKey, "startup")
       ELSE /\ fpc' = "recv"
            /\ UNCHANGED <<fetchKey, fetchCause, fetchResult, batch, resp, enq,
                           failedEmpty, fetchStale>>
  /\ UNCHANGED <<lastKeySet, app_chan, news_chan, newsOld, capturedKey>>
  /\ UNCHANGED uiVars

\* app_rx.recv() returns a message; both arms call fetch_news
FetcherRecv ==
  /\ fpc = "recv"
  /\ app_chan # <<>>
  /\ app_chan' = Tail(app_chan)
  /\ StartFetch(KeyForMsg(Head(app_chan), capturedKey), Head(app_chan).type)
  /\ lastKeySet' = IF Head(app_chan).type = "ApiKeySet"
                     THEN Head(app_chan).key ELSE lastKeySet
  /\ UNCHANGED <<news_chan, newsOld, capturedKey>>
  /\ UNCHANGED uiVars

\* NewsAPI::new(api_key).fetch() returns
FetchResolve(outcome) ==
  /\ fpc = "net"
  /\ Len(articles) + Len(news_chan) + Len(ResponseArticles(outcome)) <= MaxRecords
  /\ fpc' = "push"
  /\ batch' = ResponseArticles(outcome)
  /\ resp' = outcome.articles
  /\ fetchResult' = IF outcome.ok THEN "ok" ELSE "err"
  /\ failedEmpty' = (~outcome.ok /\ articles = <<>> /\ news_chan = <<>>)
  /\ UNCHANGED <<fetchKey, fetchCause, enq, lastKeySet, fetchStale, app_chan,
                 news_chan, newsOld, capturedKey>>
  /\ UNCHANGED uiVars

\* one iteration of the for loop: build NewsCardData, news_tx.send
PushRecord ==
  /\ fpc = "push"
  /\ batch # <<>>
  /\ news_chan' = news_chan \o SentForArticle(Head(batch))
  /\ newsOld' = newsOld \o [i \in DOMAIN SentForArticle(Head(batch)) |-> fetchStale]
  /\ enq' = enq \o SentForArticle(Head(batch))
  /\ batch' = Tail(batch)
  /\ UNCHANGED <<fpc, fetchKey, fetchCause, fetchResult, resp, lastKeySet,
                 failedEmpty, fetchStale, app_chan, capturedKey>>
  /\ UNCHANGED uiVars

\* fetch_news returns: back to recv in the loop, or the closure ends after the
\* startup fetch and app_rx (with anything buffered) is dropped
FetchReturn ==
  /\ fpc = "push"
  /\ batch = <<>>
  /\ IF fetchCause = "startup"
       THEN fpc' = "done" /\ app_chan' = <<>>
       ELSE fpc' = "recv" /\ app_chan' = app_chan
  /\ UNCHANGED <<fetchKey, batch, fetchCause, fetchResult, resp, enq, lastKeySet,
                 failedEmpty, fetchStale, news_chan, newsOld, capturedKey>>
  /\ UNCHANGED uiVars

Next ==
  \/ \E k \in KeyTexts, enter \in BOOLEAN : RenderConfig(k, enter)
  \/ \E refresh \in BOOLEAN : ContentFrame(refresh)
  \/ SendUnblock
  \/ FetcherStart
  \/ FetcherRecv
  \/ \E outcome \in FetchOutcomes : FetchResolve(outcome)
  \/ PushRecord
  \/ FetchReturn

Spec == Init /\ [][Next]_vars

TypeOK ==
  /\ api_key \in KeyTexts
  /\ api_key_initialized \in BOOLEAN
  /\ uiPc \in {"frame", "blocked", "panicked"}
  /\ fpc \in {"start", "recv", "net", "push", "done"}
  /\ Len(app_chan) <= ChanCap
  /\ Len(newsOld) = Len(news_chan)
  /\ Len(articlesOld) = Len(articles)

\* a step is a frame of the UI loop iff it flips lastFrame.tick
FrameStep == lastFrame'.tick # lastFrame.tick

\* ----- C1 -----
\* C1: while the API key text is empty the system stays in AwaitingApiKey:
\* the initialized flag is false, no ApiKeySet has been sent and no fetch has
\* been started.
C1_EmptyKeyStaysAwaiting ==
  api_key = "" =>
    (~api_key_initialized /\ apiKeySetSent = 0 /\ fetchCause = "none")

\* ----- C2 -----
\* C2: whenever the content view is shown, a refresh can be sent and will be
\* received: the send never fails and the fetcher thread never terminates.
C2_RefreshAlwaysServed ==
  api_key_initialized => (uiPc # "panicked" /\ fpc # "done")

\* ----- C3 -----
\* C3 (as stated): the update step never waits for the fetcher, so the UI is
\* never inside a blocked send.
C3_NeverBlocks == uiPc # "blocked"

\* C3 (amended): a frame waits for the fetcher only inside the send of a
\* Refresh, and it starts waiting only when a control message is already
\* pending in the channel; frames without a send, and the key submission,
\* always complete.
C3_BlocksOnlyOnFullChannel ==
  /\ [](uiPc = "blocked" =>
          (pending = RefreshMsg /\ lastFrame.input = "refresh"))
  /\ [](lastFrame.input \in {"none", "edit", "idle", "enter"} => uiPc = "frame")
  /\ [][(uiPc # "blocked" /\ uiPc' = "blocked") =>
          (FrameStep /\ app_chan # <<>> /\ app_chan' = app_chan)]_vars

C3_Witness == uiPc = "blocked" /\ fpc = "net" /\ capturedKey = ""

\* ----- C4 -----
\* C4: after a frame in which refresh was clicked the display list is empty,
\* also while the send of Refresh is still blocked (the clear precedes the
\* send) and also when that frame had drained a record before the click was
\* handled.
C4_RefreshClearsList ==
  /\ lastFrame.input = "refresh" => articles = <<>>
  /\ uiPc = "blocked" => articles = <<>>

C4_Witness ==
  /\ lastFrame.input = "refresh"
  /\ lastFrame.drained
  /\ lastFrame.lenBefore > 0
  /\ articles = <<>>
  /\ uiPc = "frame"

\* ----- C5 -----
\* C5: a failed client call enqueues nothing and is not retried; if the list
\* and the queue were empty when it failed they stay empty (Loading) until
\* the fetcher starts another fetch for a control message of the user.
C5_FailureDropsBatch ==
  fetchResult = "err" =>
    /\ batch = <<>>
    /\ enq = <<>>
    /\ fpc \in {"push", "recv", "done"}
    /\ failedEmpty => (articles = <<>> /\ news_chan = <<>>)

C5_Witness ==
  /\ fetchResult = "err"
  /\ failedEmpty
  /\ fpc = "recv"
  /\ View = "Loading"
  /\ lastFrame.input = "idle"
  /\ app_chan = <<>>

\* ----- C6 -----
\* C6: the initialized flag never goes back to false; the frame that submits
\* a non-empty key sets the flag, leaves exactly the ApiKeySet with that key
\* in the control channel without blocking, and shows Loading; at most one
\* ApiKeySet is ever sent.
C6_SubmitOnce ==
  /\ [](apiKeySetSent <= 1)
  /\ [][/\ api_key_initialized => api_key_initialized'
        /\ (FrameStep /\ lastFrame'.input = "enter" /\ api_key' # "") =>
             /\ ~api_key_initialized
             /\ api_key_initialized'
             /\ app_chan' = <<ApiKeySetMsg(api_key')>>
             /\ uiPc' = "frame"
             /\ apiKeySetSent' = 1
             /\ articles' = <<>>]_vars

C6_Witness ==
  /\ api_key_initialized
  /\ apiKeySetSent = 1
  /\ api_key = "k2"
  /\ fetchCause = "ApiKeySet"
  /\ fetchKey = "k2"
  /\ lastFrame.input = "idle"

\* ----- C7 -----
\* C7: a successful fetch enqueues one record per article of the response, in
\* response order, with the article's title and url and the placeholder
\* description; when it has returned, exactly Len(resp) records were
\* enqueued, each onto the tail of the data queue.
C7_OneRecordPerArticle ==
  /\ [](fetchResult = "ok" =>
          /\ Len(enq) + Len(batch) = Len(resp)
          /\ batch = SubSeq(resp, Len(enq) + 1, Len(resp))
          /\ \A i \in 1..Len(enq) :
               /\ i <= Len(resp)
               /\ enq[i].title = resp[i].title
               /\ enq[i].url = resp[i].url
               /\ enq[i].description = "default description"
          /\ fpc \in {"recv", "done"} => Len(enq) = Len(resp))
  /\ [][Len(enq') > Len(enq) =>
          /\ Len(enq') = Len(enq) + 1
          /\ news_chan' = Append(news_chan, enq'[Len(enq')])]_vars

C7_Witness ==
  /\ fetchResult = "ok"
  /\ fpc = "recv"
  /\ Len(resp) = 2
  /\ Len(enq) = 2
  /\ enq[1].title # enq[2].title

C9_RefreshUsesLatestKey ==
  (fetchCause = "Refresh" /\ fpc \in {"net", "push"}) => fetchKey = lastKeySet

\* ----- C10 -----
\* C10 (as stated): the display list never holds a record of a fetch started
\* before the latest refresh click.
C10_OnlyFreshRecords == \A i \in DOMAIN articlesOld : ~articlesOld[i]

\* C10 (amended): records of fetches started before the latest refresh can
\* reach the display list after the clear, but over the display list followed
\* by the data queue they always come before every record of a later fetch,
\* and while such an earlier fetch is still running no record of a later
\* fetch exists.
C10_StaleBeforeFresh ==
  LET s == articlesOld \o newsOld IN
    /\ \A i, j \in DOMAIN s : (i < j /\ s[j]) => s[i]
    /\ (fetchStale /\ fpc \in {"net", "push"}) => \A i \in DOMAIN s : s[i]

C10_Witness ==
  /\ Len(articlesOld) = 2
  /\ articlesOld[1]
  /\ ~articlesOld[2]
  /\ lastFrame.input = "idle"
====
